---- MODULE Spec2Model ----
(***************************************************************************)
(* Model of bot.py: a Telegram bot that turns a voice or text message into *)
(* an intent (Gemini), acts on Google Calendar and replies.                *)
(*                                                                         *)
(* Each handler is a coroutine.  Between two awaits its code runs without  *)
(* interruption, so every action below is "an await returns, and the       *)
(* handler runs on to its next await (or to its end)".  The awaits are     *)
(* voice.get_file(), file.download_to_drive() and message.reply_text().    *)
(* The calls to the speech recogniser, to Gemini, to the OAuth library and *)
(* to the calendar service are synchronous; their outcomes are chosen      *)
(* nondeterministically inside the action that runs them.                  *)
(***************************************************************************)
EXTENDS Integers, Sequences, FiniteSets, TLC

(***************************************************************************)
(* Bounds of the model.                                                    *)
(***************************************************************************)
MaxNow == 1            \* the clock runs over 0..MaxNow (hours)
TokenLife == 1         \* hours until an access token obtained now expires

Handlers == {1, 2}     \* concurrently running handler coroutines
Senders == {"u1", "u2"}                \* update.message.from_user.id
Texts == {"whats on today", "hi"}      \* update.message.text / what a voice message says

(***************************************************************************)
(* Strings are sequences of one-character strings, so that strip() and     *)
(* lower() are computed character by character.                            *)
(***************************************************************************)
UpperCase == <<"A","B","C","D","E","F","G","H","I","J","K","L","M",
               "N","O","P","Q","R","S","T","U","V","W","X","Y","Z">>
LowerCase == <<"a","b","c","d","e","f","g","h","i","j","k","l","m",
               "n","o","p","q","r","s","t","u","v","w","x","y","z">>
Whitespace == {" ", "\t", "\n", "\r"}

\* str.lower() on one character
LowerChar(c) ==
    IF \E i \in 1..Len(UpperCase) : UpperCase[i] = c
    THEN LowerCase[CHOOSE i \in 1..Len(UpperCase) : UpperCase[i] = c]
    ELSE c

\* str.lower()
Lower(s) == [i \in 1..Len(s) |-> LowerChar(s[i])]

\* str.strip(): drop leading and trailing whitespace
Strip(s) ==
    LET keep == {i \in 1..Len(s) : s[i] \notin Whitespace}
    IN  IF keep = {} THEN <<>>
        ELSE LET lo == CHOOSE i \in keep : \A j \in keep : i <= j
                 hi == CHOOSE i \in keep : \A j \in keep : j <= i
             IN  SubSeq(s, lo, hi)

\* the three labels process_intent_and_perform_action compares the intent with
LIST_EVENTS == <<"l","i","s","t","_","e","v","e","n","t","s">>
CREATE_EVENT == <<"c","r","e","a","t","e","_","e","v","e","n","t">>
DELETE_EVENT == <<"d","e","l","e","t","e","_","e","v","e","n","t">>
Labels == {LIST_EVENTS, CREATE_EVENT, DELETE_EVENT}

\* response.text values the generative model may give
Responses ==
    { LIST_EVENTS,
      <<" ","L","i","s","t","_","E","v","e","n","t","s","\n">>,
      <<"C","R","E","A","T","E","_","E","V","E","N","T"," ">>,
      <<"\t","d","e","l","e","t","e","_","e","v","e","n","t">>,
      <<"u","n","k","n","o","w","n">>,
      <<"'","l","i","s","t","_","e","v","e","n","t","s","'">>,
      <<" ","\n">> }

\* analyze_intent without lower()
AnalyzeIntent_NoLower(resp) == Strip(resp)

\* analyze_intent: what it returns for a response text
AnalyzeIntent(resp) == Lower(Strip(resp))

(***************************************************************************)
(* Messages passed to reply_text.  kind is the fixed part of the text;     *)
(* text and start are the values the f-string interpolates.                *)
(***************************************************************************)
Msg(kind, text, start) == [kind |-> kind, text |-> text, start |-> start]
NoMsg == Msg("", "", 0)

ReceivedMsg(t) == Msg("Received Text: ", t, 0)
TranscribedMsg(t) == Msg("Transcribed Text: ", t, 0)
NoEventsMsg == Msg("No events found for today.", "", 0)
CreatedMsg == Msg("Event created successfully.", "", 0)
DeletedMsg == Msg("Event deleted successfully.", "", 0)
UnsupportedMsg == Msg("Unknown intent or action not supported.", "", 0)
ErrorMsg == Msg("An error occurred while processing your request.", "", 0)
\* f"{start} - {event['summary']}"
EventLine(e) == Msg(" - ", e.summary, e.start)

\* the two placeholder texts of transcribe_audio
CouldNotUnderstand == "Could not understand audio"
ApiUnavailable == "API unavailable"

(***************************************************************************)
(* One entry of a handler's log: a call it made and whether the call       *)
(* returned (ok) or raised.  msg is the message of a reply_text call.      *)
(***************************************************************************)
Entry(op, ok, msg) == [op |-> op, ok |-> ok, msg |-> msg]
Call(op, ok) == Entry(op, ok, NoMsg)
Reply(m, ok) == Entry("reply", ok, m)

(***************************************************************************)
(* token.json: NoToken when the file is absent, else the stored            *)
(* credential.  token: an access token is present; expiry: the hour it     *)
(* expires; refresh_token: a refresh token is present.                     *)
(***************************************************************************)
NoToken == [token |-> FALSE, expiry |-> -1, refresh_token |-> FALSE, exists |-> FALSE]
Cred(tok, exp, rt) == [token |-> tok, expiry |-> exp, refresh_token |-> rt, exists |-> TRUE]

\* creds.expired and creds.valid at hour t
Expired(c, t) == t >= c.expiry
Valid(c, t) == c.token /\ ~Expired(c, t)

\* a choice that refreshes every invalid credential that has a refresh token
AuthPath_RefreshIfPossible(tok, t) ==
    IF tok.exists /\ Valid(tok, t) THEN "stored"
    ELSE IF tok.exists /\ tok.refresh_token THEN "refresh"
    ELSE "flow"

\* which way authenticate_google_calendar takes for the stored credential
AuthPath(tok, t) ==
    IF tok.exists /\ Valid(tok, t) THEN "stored"
    ELSE IF tok.exists /\ Expired(tok, t) /\ tok.refresh_token THEN "refresh"
    ELSE "flow"

\* the credential a refresh or the interactive flow yields at hour t
FreshCred(t) == Cred(TRUE, t + TokenLife, TRUE)

\* authenticate_google_calendar writing token.json after a refresh only
Authenticate_PersistRefreshOnly(tok, t, failAt) ==
    LET path == AuthPath(tok, t)
        load == IF tok.exists THEN <<Call("load_token", TRUE)>> ELSE <<>>
        build == <<Call("build", failAt # "build")>>
    IN  IF path = "stored"
        THEN [ok |-> failAt # "build", token |-> tok, steps |-> load \o build]
        ELSE IF failAt = path
        THEN [ok |-> FALSE, token |-> tok, steps |-> load \o <<Call(path, FALSE)>>]
        ELSE IF path = "flow"
        THEN [ok |-> failAt # "build", token |-> tok,
              steps |-> load \o <<Call(path, TRUE)>> \o build]
        ELSE IF failAt = "write_token"
        THEN [ok |-> FALSE, token |-> tok,
              steps |-> load \o <<Call(path, TRUE), Call("write_token", FALSE)>>]
        ELSE [ok |-> failAt # "build", token |-> FreshCred(t),
              steps |-> load \o <<Call(path, TRUE), Call("write_token", TRUE)>> \o build]

\* authenticate_google_calendar writing token.json before it refreshes
Authenticate_WriteFirst(tok, t, failAt) ==
    LET path == AuthPath(tok, t)
        load == IF tok.exists THEN <<Call("load_token", TRUE)>> ELSE <<>>
        build == <<Call("build", failAt # "build")>>
    IN  IF path = "stored"
        THEN [ok |-> failAt # "build", token |-> tok, steps |-> load \o build]
        ELSE IF failAt = "write_token"
        THEN [ok |-> FALSE, token |-> tok, steps |-> load \o <<Call("write_token", FALSE)>>]
        ELSE IF failAt = path
        THEN [ok |-> FALSE, token |-> tok,
              steps |-> load \o <<Call("write_token", TRUE), Call(path, FALSE)>>]
        ELSE [ok |-> failAt # "build", token |-> tok,
              steps |-> load \o <<Call("write_token", TRUE), Call(path, TRUE)>> \o build]

(***************************************************************************)
(* authenticate_google_calendar at hour t with token.json = tok.  failAt   *)
(* names the call that raises, if it is made.  The result: ok (the service *)
(* object was built), token (token.json afterwards), steps (the calls).    *)
(***************************************************************************)
Authenticate(tok, t, failAt) ==
    LET path == AuthPath(tok, t)
        load == IF tok.exists THEN <<Call("load_token", TRUE)>> ELSE <<>>
        build == <<Call("build", failAt # "build")>>
    IN  IF path = "stored"
        THEN [ok |-> failAt # "build", token |-> tok, steps |-> load \o build]
        ELSE IF failAt = path
        THEN [ok |-> FALSE, token |-> tok, steps |-> load \o <<Call(path, FALSE)>>]
        ELSE IF failAt = "write_token"
        THEN [ok |-> FALSE, token |-> tok,
              steps |-> load \o <<Call(path, TRUE), Call("write_token", FALSE)>>]
        ELSE [ok |-> failAt # "build", token |-> FreshCred(t),
              steps |-> load \o <<Call(path, TRUE), Call("write_token", TRUE)>> \o build]

(***************************************************************************)
(* The calendar service.  An event: id, summary, start and end (hours),    *)
(* attendees.  Times travel as RFC 3339 strings: IsoZ is                   *)
(* datetime.isoformat() + 'Z', ParseTime what the service reads from it.   *)
(***************************************************************************)
IsoZ(t) == <<t, "Z">>
ParseTime(s) == s[1]

PlaceholderId == "your_event_id"
FreshIds == <<"id1", "id2">>      \* ids the service gives to inserted events

Standup == [id |-> PlaceholderId, summary |-> "Standup", start |-> 0, end |-> 2,
            attendees |-> {}]
Review == [id |-> "id0", summary |-> "Review", start |-> 0, end |-> 3,
           attendees |-> {"a@example.com"}]
InitialCalendars == { {}, {Standup, Review} }

\* all orders of the events of S
Orders(S) ==
    {q \in [1..Cardinality(S) -> S] : \A i, j \in 1..Cardinality(S) : i # j => q[i] # q[j]}

\* events().list(timeMin, timeMax, singleEvents=True, orderBy='startTime'):
\* the answers the service may give (events of equal start in either order)
ServerList(cal, timeMin, timeMax) ==
    LET hit == {e \in cal : e.end > ParseTime(timeMin) /\ e.start < ParseTime(timeMax)}
    IN  {q \in Orders(hit) : \A i, j \in 1..Len(q) : i < j => q[i].start <= q[j].start}

\* events().insert(body): the calendar afterwards
ServerInsert(cal, id, body) ==
    cal \cup {[id |-> id, summary |-> body.summary,
               start |-> ParseTime(body.start.dateTime),
               end |-> ParseTime(body.end.dateTime),
               attendees |-> {a.email : a \in body.attendees}]}

\* events().delete(eventId): the calendar afterwards
ServerDelete(cal, id) == {e \in cal : e.id # id}

DayHours == 24

\* a request for the day after the coming one
ListRequest_DayAfter(t) ==
    [timeMin |-> IsoZ(t + DayHours), timeMax |-> IsoZ(t + DayHours + DayHours)]

\* list_today_events: the request parameters at hour t
ListRequest(t) == [timeMin |-> IsoZ(t), timeMax |-> IsoZ(t + DayHours)]

\* create_event: the request body
EventBody(summary, start_time, end_time, attendees) ==
    [summary |-> summary,
     start |-> [dateTime |-> start_time, timeZone |-> "UTC"],
     end |-> [dateTime |-> end_time, timeZone |-> "UTC"],
     attendees |-> {[email |-> a] : a \in attendees}]

StartDelta == 1
EndDelta == 2
\* the placeholder event of the create_event branch at hour t
PlaceholderBody(t) ==
    EventBody("Meeting with Team", IsoZ(t + StartDelta), IsoZ(t + EndDelta),
              {"guest1@example.com", "guest2@example.com"})

\* a chain whose last test is missing: every other intent deletes
Branch_ElseDelete(intent) ==
    IF intent = LIST_EVENTS THEN "list"
    ELSE IF intent = CREATE_EVENT THEN "create"
    ELSE "delete"

\* the branch process_intent_and_perform_action takes for an intent
Branch(intent) ==
    IF intent = LIST_EVENTS THEN "list"
    ELSE IF intent = CREATE_EVENT THEN "create"
    ELSE IF intent = DELETE_EVENT THEN "delete"
    ELSE "unsupported"

\* Python's None
None == <<>>

\* a listing whose "No events" message is not in an else branch
ListReplies_NoElse(events) ==
    [i \in 1..Len(events) |-> EventLine(events[i])] \o <<NoEventsMsg>>

\* a listing that walks the answer of the service from its end
ListReplies_Reversed(events) ==
    IF events = <<>> THEN <<NoEventsMsg>>
    ELSE [i \in 1..Len(events) |-> EventLine(events[Len(events) + 1 - i])]

\* the replies of the list_events branch for the events the service returned
ListReplies(events) ==
    IF events = <<>> THEN <<NoEventsMsg>>
    ELSE [i \in 1..Len(events) |-> EventLine(events[i])]

\* a pipeline whose calendar adapter swallows the error of a failed insert or
\* delete, so that the branch goes on to its confirmation
ProcessIntent_SilentRecovery(tok, cal, nid, t, failAt, resp, events) ==
    LET intent == AnalyzeIntent(resp)
        a == Authenticate(tok, t, failAt)
        b == Branch(intent)
        callOk == failAt # "call"
        insertOk == callOk /\ nid < Len(FreshIds)
        deleteOk == callOk /\ \E e \in cal : e.id = PlaceholderId
        pre == <<Call("classify", TRUE)>> \o a.steps
        Out(raised, steps, c, n, replies) ==
            [raised |-> raised, steps |-> steps, token |-> a.token, calendar |-> c,
             nid |-> n, intent |-> intent, branch |-> IF a.ok THEN b ELSE "none",
             replies |-> replies]
    IN  IF failAt = "classify"
        THEN [raised |-> TRUE, steps |-> <<Call("classify", FALSE)>>, token |-> tok,
              calendar |-> cal, nid |-> nid, intent |-> None, branch |-> "none",
              replies |-> <<>>]
        ELSE IF ~a.ok THEN Out(TRUE, pre, cal, nid, <<>>)
        ELSE IF b = "list" THEN
            IF callOk THEN Out(FALSE, pre \o <<Call("list", TRUE)>>, cal, nid,
                               ListReplies(events))
            ELSE Out(TRUE, pre \o <<Call("list", FALSE)>>, cal, nid, <<>>)
        ELSE IF b = "create" THEN
            IF insertOk
            THEN Out(FALSE, pre \o <<Call("insert", TRUE)>>,
                     ServerInsert(cal, FreshIds[nid + 1], PlaceholderBody(t)), nid + 1,
                     <<CreatedMsg>>)
            ELSE Out(FALSE, pre \o <<Call("insert", FALSE)>>, cal, nid, <<CreatedMsg>>)
        ELSE IF b = "delete" THEN
            IF deleteOk
            THEN Out(FALSE, pre \o <<Call("delete", TRUE)>>,
                     ServerDelete(cal, PlaceholderId), nid, <<DeletedMsg>>)
            ELSE Out(FALSE, pre \o <<Call("delete", FALSE)>>, cal, nid, <<DeletedMsg>>)
        ELSE Out(FALSE, pre, cal, nid, <<UnsupportedMsg>>)

(***************************************************************************)
(* process_intent_and_perform_action up to its first await.  tok, cal and  *)
(* nid are token.json, the calendar and the number of ids the service has  *)
(* given out; t is the hour; failAt names the call that raises (if it is   *)
(* made), resp is the model's response text, events the answer of the      *)
(* service to a list request.  The result: raised (an exception left the   *)
(* function), steps (the calls made, in order), the new token.json,        *)
(* calendar and nid, intent, and replies: the messages the function sends  *)
(* from here on, one await each, in order; branch: the branch taken.       *)
(***************************************************************************)
ProcessIntent(tok, cal, nid, t, failAt, resp, events) ==
    LET intent == AnalyzeIntent(resp)
        a == Authenticate(tok, t, failAt)
        b == Branch(intent)
        callOk == failAt # "call"
        insertOk == callOk /\ nid < Len(FreshIds)
        deleteOk == callOk /\ \E e \in cal : e.id = PlaceholderId
        pre == <<Call("classify", TRUE)>> \o a.steps
        Out(raised, steps, c, n, replies) ==
            [raised |-> raised, steps |-> steps, token |-> a.token, calendar |-> c,
             nid |-> n, intent |-> intent, branch |-> IF a.ok THEN b ELSE "none",
             replies |-> replies]
    IN  IF failAt = "classify"
        THEN [raised |-> TRUE, steps |-> <<Call("classify", FALSE)>>, token |-> tok,
              calendar |-> cal, nid |-> nid, intent |-> None, branch |-> "none",
              replies |-> <<>>]
        ELSE IF ~a.ok THEN Out(TRUE, pre, cal, nid, <<>>)
        ELSE IF b = "list" THEN
            IF callOk THEN Out(FALSE, pre \o <<Call("list", TRUE)>>, cal, nid,
                               ListReplies(events))
            ELSE Out(TRUE, pre \o <<Call("list", FALSE)>>, cal, nid, <<>>)
        ELSE IF b = "create" THEN
            IF insertOk
            THEN Out(FALSE, pre \o <<Call("insert", TRUE)>>,
                     ServerInsert(cal, FreshIds[nid + 1], PlaceholderBody(t)), nid + 1,
                     <<CreatedMsg>>)
            ELSE Out(TRUE, pre \o <<Call("insert", FALSE)>>, cal, nid, <<>>)
        ELSE IF b = "delete" THEN
            IF deleteOk
            THEN Out(FALSE, pre \o <<Call("delete", TRUE)>>,
                     ServerDelete(cal, PlaceholderId), nid, <<DeletedMsg>>)
            ELSE Out(TRUE, pre \o <<Call("delete", FALSE)>>, cal, nid, <<>>)
        ELSE Out(FALSE, pre, cal, nid, <<UnsupportedMsg>>)

\* the calls that can raise in process_intent_and_perform_action
IntentFailures == {"none", "classify", "refresh", "flow", "write_token", "build", "call"}

(***************************************************************************)
(* Staged files.  A path is <<sender, extension>> under voice_messages/.   *)
(* files maps a path to NoFile or to the handler whose audio the file      *)
(* holds.                                                                  *)
(***************************************************************************)
NoFile == 0
OgaPath(s) == <<s, ".oga">>
WavPath(s) == <<s, ".wav">>
Paths == {OgaPath(s) : s \in Senders} \cup {WavPath(s) : s \in Senders}

\* a finally block that forgets the waveform file
Cleanup_ContainerOnly(fs, file_path, wav_file_path) ==
    [p \in Paths |-> IF p = file_path THEN NoFile ELSE fs[p]]

\* the finally block of handle_voice: the files afterwards
Cleanup(fs, file_path, wav_file_path) ==
    [p \in Paths |->
        IF (p = file_path \/ p = wav_file_path) /\ fs[p] # NoFile THEN NoFile ELSE fs[p]]

\* the os.remove calls the finally block makes
CleanupSteps(fs, file_path, wav_file_path) ==
    (IF file_path # None /\ fs[file_path] # NoFile
     THEN <<Call("remove_oga", TRUE)>> ELSE <<>>)
    \o (IF wav_file_path # None /\ fs[wav_file_path] # NoFile
        THEN <<Call("remove_wav", TRUE)>> ELSE <<>>)

(***************************************************************************)
(* State.  Per handler h: pc (the await it is suspended at), kind, sender  *)
(* and said (the event: "voice" or "text", who sent it, its words), text,  *)
(* file_path, wav_file_path (local variables), replies (the messages still *)
(* to send before the handler goes on; the first is in flight), log (the   *)
(* calls made so far), resp, intent, branch (the model's response, what    *)
(* analyze_intent returned, the branch taken), escaped (an exception left  *)
(* the handler), stored (what authenticate_google_calendar found in        *)
(* token.json, and at which hour), listed (the events list_today_events    *)
(* returned to the run).  Shared: files, token (token.json),               *)
(* calendar, nid (ids the calendar service has given out), now (the hour). *)
(***************************************************************************)
VARIABLES pc, kind, sender, said, text, file_path, wav_file_path, replies, log,
          resp, intent, branch, stored, listed, escaped, files, token, calendar,
          nid, now

event == <<kind, sender, said>>
locals == <<text, file_path, wav_file_path>>
routing == <<resp, intent, branch, stored, listed>>
shared == <<files, token, calendar, nid>>
vars == <<pc, event, locals, replies, log, routing, escaped, shared, now>>

NotAuthenticated == [cred |-> NoToken, at |-> -1]

InitialTokens ==
    { NoToken,
      Cred(TRUE, 1, TRUE),       \* valid until hour 1
      Cred(TRUE, 0, TRUE),       \* expired, refresh token present
      Cred(TRUE, 0, FALSE),      \* expired, no refresh token
      Cred(FALSE, 1, TRUE) }     \* no access token, not expired until hour 1

Init ==
    /\ pc = [h \in Handlers |-> "idle"]
    /\ kind = [h \in Handlers |-> ""]
    /\ sender = [h \in Handlers |-> ""]
    /\ said = [h \in Handlers |-> ""]
    /\ text = [h \in Handlers |-> ""]
    /\ file_path = [h \in Handlers |-> None]
    /\ wav_file_path = [h \in Handlers |-> None]
    /\ replies = [h \in Handlers |-> <<>>]
    /\ log = [h \in Handlers |-> <<>>]
    /\ resp = [h \in Handlers |-> None]
    /\ intent = [h \in Handlers |-> None]
    /\ branch = [h \in Handlers |-> "none"]
    /\ stored = [h \in Handlers |-> NotAuthenticated]
    /\ listed = [h \in Handlers |-> None]
    /\ escaped = [h \in Handlers |-> FALSE]
    /\ files = [p \in Paths |-> NoFile]
    /\ token \in InitialTokens
    /\ calendar \in InitialCalendars
    /\ nid = 0
    /\ now = 0

\* an except block that only logs: the handler ends without the generic message
Except_LogOnly(h) ==
    /\ replies' = [replies EXCEPT ![h] = <<>>]
    /\ pc' = [pc EXCEPT ![h] = "idle"]

\* the handler enters its except block: it sends the generic message
Except(h) ==
    /\ replies' = [replies EXCEPT ![h] = <<ErrorMsg>>]
    /\ pc' = [pc EXCEPT ![h] = "except"]

\* a handler whose coroutine is never resumed after its last await
Finish_Suspended(h, steps) ==
    /\ files' = files
    /\ log' = [log EXCEPT ![h] = @ \o steps]
    /\ replies' = [replies EXCEPT ![h] = <<>>]
    /\ pc' = [pc EXCEPT ![h] = "suspended"]

\* the handler ends after the calls in steps: the finally block of handle_voice
\* runs (handle_text has none and no path variable), then the coroutine is over
Finish(h, steps) ==
    /\ files' = Cleanup(files, file_path[h], wav_file_path[h])
    /\ log' = [log EXCEPT ![h] = @ \o steps
                   \o CleanupSteps(files, file_path[h], wav_file_path[h])]
    /\ replies' = [replies EXCEPT ![h] = <<>>]
    /\ pc' = [pc EXCEPT ![h] = "done"]

\* a handler coroutine starts: its path variables are None, nothing is logged
\* or classified yet (the record of the run before it in this slot is dropped)
NewRun(h) ==
    /\ file_path' = [file_path EXCEPT ![h] = None]
    /\ wav_file_path' = [wav_file_path EXCEPT ![h] = None]
    /\ log' = [log EXCEPT ![h] = <<>>]
    /\ resp' = [resp EXCEPT ![h] = None]
    /\ intent' = [intent EXCEPT ![h] = None]
    /\ branch' = [branch EXCEPT ![h] = "none"]
    /\ stored' = [stored EXCEPT ![h] = NotAuthenticated]
    /\ listed' = [listed EXCEPT ![h] = None]
    /\ escaped' = [escaped EXCEPT ![h] = FALSE]

\* the dispatcher starts handle_text for a text message; it runs to its first
\* await, the reply that echoes the text
ReceiveText(h) ==
    /\ pc[h] \in {"idle", "done"}
    /\ \E s \in Senders, t \in Texts :
        /\ kind' = [kind EXCEPT ![h] = "text"]
        /\ sender' = [sender EXCEPT ![h] = s]
        /\ said' = [said EXCEPT ![h] = t]
        /\ text' = [text EXCEPT ![h] = t]
        /\ replies' = [replies EXCEPT ![h] = <<ReceivedMsg(t)>>]
    /\ pc' = [pc EXCEPT ![h] = "echo"]
    /\ NewRun(h)
    /\ UNCHANGED <<shared, now>>

\* the dispatcher starts handle_voice for a voice message; it runs to its first
\* await, voice.get_file()
ReceiveVoice(h) ==
    /\ pc[h] \in {"idle", "done"}
    /\ \E s \in Senders, t \in Texts :
        /\ kind' = [kind EXCEPT ![h] = "voice"]
        /\ sender' = [sender EXCEPT ![h] = s]
        /\ said' = [said EXCEPT ![h] = t]
    /\ text' = [text EXCEPT ![h] = ""]
    /\ replies' = [replies EXCEPT ![h] = <<>>]
    /\ pc' = [pc EXCEPT ![h] = "get_file"]
    /\ NewRun(h)
    /\ UNCHANGED <<shared, now>>

\* get_file() returns or raises; on return file_path is set and the download
\* is awaited
GetFileReturns(h) ==
    /\ pc[h] = "get_file"
    /\ \E ok \in BOOLEAN :
        /\ log' = [log EXCEPT ![h] = Append(@, Call("get_file", ok))]
        /\ IF ok
           THEN /\ file_path' = [file_path EXCEPT ![h] = OgaPath(sender[h])]
                /\ pc' = [pc EXCEPT ![h] = "download"]
                /\ UNCHANGED replies
           ELSE /\ Except(h)
                /\ UNCHANGED file_path
    /\ UNCHANGED <<event, text, wav_file_path, routing, escaped, shared, now>>

(***************************************************************************)
(* transcribe_audio for a waveform holding the words `words`.  outcome:    *)
(* "decode" (sr.AudioFile / record raises), "unknown_value" and            *)
(* "request_error" (recognize_google raises that exception), else the      *)
(* words are recognised.  The with block is outside the try.               *)
(***************************************************************************)
Transcribe(words, outcome) ==
    IF outcome = "decode"
    THEN [raised |-> TRUE, text |-> "", steps |-> <<Call("decode", FALSE)>>]
    ELSE IF outcome = "unknown_value"
    THEN [raised |-> FALSE, text |-> CouldNotUnderstand,
          steps |-> <<Call("decode", TRUE), Call("recognize", FALSE)>>]
    ELSE IF outcome = "request_error"
    THEN [raised |-> FALSE, text |-> ApiUnavailable,
          steps |-> <<Call("decode", TRUE), Call("recognize", FALSE)>>]
    ELSE [raised |-> FALSE, text |-> words,
          steps |-> <<Call("decode", TRUE), Call("recognize", TRUE)>>]

VoiceOutcomes == {"ok", "download", "convert", "decode", "unknown_value", "request_error"}

\* download_to_drive() returns (the container file is written) or raises; on
\* return the handler converts, transcribes and awaits the reply that echoes
\* the transcription
DownloadReturns(h) ==
    /\ pc[h] = "download"
    /\ \E out \in VoiceOutcomes :
        LET oga == file_path[h]
            wav == WavPath(sender[h])
            staged == [files EXCEPT ![oga] = h]
            converted == [staged EXCEPT ![wav] = staged[oga]]
            tr == Transcribe(said[converted[wav]], out)
        IN  IF out = "download"
            THEN /\ log' = [log EXCEPT ![h] = Append(@, Call("download", FALSE))]
                 /\ Except(h)
                 /\ UNCHANGED <<files, wav_file_path, text>>
            ELSE /\ wav_file_path' = [wav_file_path EXCEPT ![h] = wav]
                 /\ IF out = "convert"
                    THEN /\ files' = staged
                         /\ log' = [log EXCEPT ![h] =
                                @ \o <<Call("download", TRUE), Call("convert", FALSE)>>]
                         /\ Except(h)
                         /\ UNCHANGED text
                    ELSE /\ files' = converted
                         /\ log' = [log EXCEPT ![h] =
                                @ \o <<Call("download", TRUE), Call("convert", TRUE)>>
                                  \o tr.steps]
                         /\ IF tr.raised
                            THEN /\ Except(h)
                                 /\ UNCHANGED text
                            ELSE /\ text' = [text EXCEPT ![h] = tr.text]
                                 /\ replies' = [replies EXCEPT ![h] =
                                        <<TranscribedMsg(tr.text)>>]
                                 /\ pc' = [pc EXCEPT ![h] = "echo"]
    /\ UNCHANGED <<event, file_path, routing, escaped, token, calendar, nid, now>>

\* a pipeline that takes the summary of the event it creates from the text
EchoReturns_TextAsSummary(h) ==
    /\ pc[h] = "echo"
    /\ \E ok \in BOOLEAN, failAt \in IntentFailures, r \in Responses :
       \E events \in ServerList(calendar, ListRequest(now).timeMin,
                                 ListRequest(now).timeMax) :
        LET p == ProcessIntent(token, calendar, nid, now, failAt, r, events)
        IN  IF ~ok
            THEN /\ log' = [log EXCEPT ![h] = Append(@, Reply(replies[h][1], FALSE))]
                 /\ Except(h)
                 /\ UNCHANGED <<routing, token, calendar, nid>>
            ELSE /\ log' = [log EXCEPT ![h] =
                        Append(@, Reply(replies[h][1], TRUE)) \o p.steps]
                 /\ resp' = [resp EXCEPT ![h] = IF failAt = "classify" THEN None ELSE r]
                 /\ intent' = [intent EXCEPT ![h] = p.intent]
                 /\ branch' = [branch EXCEPT ![h] = p.branch]
                 /\ stored' = [stored EXCEPT ![h] =
                        IF failAt = "classify" THEN @ ELSE [cred |-> token, at |-> now]]
                 /\ listed' = [listed EXCEPT ![h] =
                        IF \E i \in DOMAIN p.steps : p.steps[i] = Call("list", TRUE)
                        THEN events ELSE None]
                 /\ token' = p.token
                 /\ calendar' = {IF e \in calendar THEN e
                                  ELSE [e EXCEPT !.summary = text[h]] : e \in p.calendar}
                 /\ nid' = p.nid
                 /\ IF p.raised
                    THEN Except(h)
                    ELSE /\ replies' = [replies EXCEPT ![h] = p.replies]
                         /\ pc' = [pc EXCEPT ![h] = "result"]
    /\ UNCHANGED <<event, locals, escaped, files, now>>

\* the reply that echoes the text returns or raises; on return
\* process_intent_and_perform_action runs to its first await
EchoReturns(h) ==
    /\ pc[h] = "echo"
    /\ \E ok \in BOOLEAN, failAt \in IntentFailures, r \in Responses :
       \E events \in ServerList(calendar, ListRequest(now).timeMin,
                                 ListRequest(now).timeMax) :
        LET p == ProcessIntent(token, calendar, nid, now, failAt, r, events)
        IN  IF ~ok
            THEN /\ log' = [log EXCEPT ![h] = Append(@, Reply(replies[h][1], FALSE))]
                 /\ Except(h)
                 /\ UNCHANGED <<routing, token, calendar, nid>>
            ELSE /\ log' = [log EXCEPT ![h] =
                        Append(@, Reply(replies[h][1], TRUE)) \o p.steps]
                 /\ resp' = [resp EXCEPT ![h] = IF failAt = "classify" THEN None ELSE r]
                 /\ intent' = [intent EXCEPT ![h] = p.intent]
                 /\ branch' = [branch EXCEPT ![h] = p.branch]
                 /\ stored' = [stored EXCEPT ![h] =
                        IF failAt = "classify" THEN @ ELSE [cred |-> token, at |-> now]]
                 /\ listed' = [listed EXCEPT ![h] =
                        IF \E i \in DOMAIN p.steps : p.steps[i] = Call("list", TRUE)
                        THEN events ELSE None]
                 /\ token' = p.token
                 /\ calendar' = p.calendar
                 /\ nid' = p.nid
                 /\ IF p.raised
                    THEN Except(h)
                    ELSE /\ replies' = [replies EXCEPT ![h] = p.replies]
                         /\ pc' = [pc EXCEPT ![h] = "result"]
    /\ UNCHANGED <<event, locals, escaped, files, now>>

\* a pipeline that undoes its insert when the confirmation cannot be sent
ResultReturns_Rollback(h) ==
    /\ pc[h] = "result"
    /\ \E ok \in BOOLEAN :
        LET sent == Reply(replies[h][1], ok)
            undo == replies[h][1] = CreatedMsg
        IN  IF ~ok
            THEN /\ log' = [log EXCEPT ![h] = Append(@, sent) \o
                        (IF undo THEN <<Call("delete", TRUE)>> ELSE <<>>)]
                 /\ calendar' = IF undo THEN ServerDelete(calendar, FreshIds[nid])
                                ELSE calendar
                 /\ Except(h)
                 /\ UNCHANGED files
            ELSE IF Len(replies[h]) > 1
            THEN /\ log' = [log EXCEPT ![h] = Append(@, sent)]
                 /\ replies' = [replies EXCEPT ![h] = Tail(@)]
                 /\ UNCHANGED <<pc, files, calendar>>
            ELSE Finish(h, <<sent>>) /\ UNCHANGED calendar
    /\ UNCHANGED <<event, locals, routing, escaped, token, nid, now>>

\* a reply of process_intent_and_perform_action returns or raises; on return
\* the next line of a listing is sent, or the handler ends
ResultReturns(h) ==
    /\ pc[h] = "result"
    /\ \E ok \in BOOLEAN :
        LET sent == Reply(replies[h][1], ok)
        IN  IF ~ok
            THEN /\ log' = [log EXCEPT ![h] = Append(@, sent)]
                 /\ Except(h)
                 /\ UNCHANGED files
            ELSE IF Len(replies[h]) > 1
            THEN /\ log' = [log EXCEPT ![h] = Append(@, sent)]
                 /\ replies' = [replies EXCEPT ![h] = Tail(@)]
                 /\ UNCHANGED <<pc, files>>
            ELSE Finish(h, <<sent>>)
    /\ UNCHANGED <<event, locals, routing, escaped, token, calendar, nid, now>>

\* the reply of the except block returns, or raises and the exception leaves
\* the handler; either way the handler ends
ExceptReturns(h) ==
    /\ pc[h] = "except"
    /\ \E ok \in BOOLEAN :
        /\ Finish(h, <<Reply(replies[h][1], ok)>>)
        /\ escaped' = [escaped EXCEPT ![h] = ~ok]
    /\ UNCHANGED <<event, locals, routing, token, calendar, nid, now>>

\* an hour passes
Tick ==
    /\ now < MaxNow
    /\ now' = now + 1
    /\ UNCHANGED <<pc, event, locals, replies, log, routing, escaped, shared>>

\* main(): the application is built with its defaults, so the dispatcher
\* handles one update at a time: one handler coroutine, started again for the
\* next update when it is over
Sequential == {1}

Next ==
    \/ \E h \in Sequential : ReceiveText(h)
    \/ \E h \in Sequential : ReceiveVoice(h)
    \/ \E h \in Sequential : GetFileReturns(h)
    \/ \E h \in Sequential : DownloadReturns(h)
    \/ \E h \in Sequential : EchoReturns(h)
    \/ \E h \in Sequential : ResultReturns(h)
    \/ \E h \in Sequential : ExceptReturns(h)
    \/ Tick

Spec == Init /\ [][Next]_vars

(***************************************************************************)
(* The handling of one update when every awaited call eventually returns   *)
(* or raises: a handler suspended at an await is eventually resumed.  The  *)
(* calls made without an await return or raise within the step that makes  *)
(* them.  The hour does not change during the run.                         *)
(***************************************************************************)
NextLive ==
    \/ \E h \in Sequential : pc[h] = "idle" /\ ReceiveText(h)
    \/ \E h \in Sequential : pc[h] = "idle" /\ ReceiveVoice(h)
    \/ \E h \in Sequential : GetFileReturns(h)
    \/ \E h \in Sequential : DownloadReturns(h)
    \/ \E h \in Sequential : EchoReturns(h)
    \/ \E h \in Sequential : ResultReturns(h)
    \/ \E h \in Sequential : ExceptReturns(h)

EveryCallReturns ==
    \A h \in Sequential :
        /\ WF_vars(GetFileReturns(h))
        /\ WF_vars(DownloadReturns(h))
        /\ WF_vars(EchoReturns(h))
        /\ WF_vars(ResultReturns(h))
        /\ WF_vars(ExceptReturns(h))

SpecLive == Init /\ [][NextLive]_vars /\ EveryCallReturns

(***************************************************************************)
(* The dispatcher of spec section 5: one task per message, so two handlers *)
(* interleave at their awaits.  Two voice messages are handled, one per    *)
(* handler; the stored credential has expired and can be refreshed.  Focus *)
(* narrows the inputs to what the staging and the credential store depend  *)
(* on: each message has its own words and the model answers with one of    *)
(* two responses.                                                          *)
(***************************************************************************)
WordsOf(h) == IF h = 1 THEN "whats on today" ELSE "hi"

Focus ==
    \A h \in Handlers :
        /\ said[h] \in {"", WordsOf(h)}
        /\ resp[h] \in {None, LIST_EVENTS, <<"u","n","k","n","o","w","n">>}

InitConcurrent == Init /\ token = Cred(TRUE, 0, TRUE) /\ calendar = {}

NextConcurrent ==
    \/ \E h \in Handlers : pc[h] = "idle" /\ ReceiveVoice(h) /\ Focus'
    \/ \E h \in Handlers : GetFileReturns(h)
    \/ \E h \in Handlers : DownloadReturns(h)
    \/ \E h \in Handlers : EchoReturns(h) /\ Focus'
    \/ \E h \in Handlers : ResultReturns(h)
    \/ \E h \in Handlers : ExceptReturns(h)

SpecConcurrent == InitConcurrent /\ [][NextConcurrent]_vars

(***************************************************************************)
(* Two text messages handled as interleaved tasks while the clock runs:    *)
(* the runs overlap at their awaits and each authenticates against the     *)
(* same token.json, which holds an expired, refreshable credential at the  *)
(* start and expires again TokenLife hours after a refresh.                *)
(***************************************************************************)
FocusRefresh == Focus /\ \A h \in Handlers : sender[h] \in {"", "u1"}

NextRefresh ==
    \/ \E h \in Handlers : pc[h] = "idle" /\ ReceiveText(h) /\ FocusRefresh'
    \/ \E h \in Handlers : EchoReturns(h) /\ FocusRefresh'
    \/ \E h \in Handlers : ResultReturns(h)
    \/ \E h \in Handlers : ExceptReturns(h)
    \/ Tick

SpecRefresh == InitConcurrent /\ [][NextRefresh]_vars

(***************************************************************************)
(* What the claims are stated with.                                        *)
(***************************************************************************)
Done(h) == pc[h] = "done"

IsReply(e) == e.op = "reply"
IsDelivered(e) == e.op = "reply" /\ e.ok
\* the reply_text calls of the run of h, and those that returned
Attempts(h) == SelectSeq(log[h], IsReply)
Delivered(h) == SelectSeq(log[h], IsDelivered)

ListingKinds == {" - ", "No events found for today."}
ConfirmationKinds == {"Event created successfully.", "Event deleted successfully."}
UnsupportedKind == "Unknown intent or action not supported."
ErrorKind == "An error occurred while processing your request."
OutcomeKinds == ListingKinds \cup ConfirmationKinds \cup {UnsupportedKind, ErrorKind}

AdapterOps == {"classify", "refresh", "flow", "write_token", "build",
               "list", "insert", "delete"}
CalendarOps == {"list", "insert", "delete"}
MutationOps == {"insert", "delete"}
AuthOps == {"load_token", "refresh", "flow", "write_token", "build"}

\* the positions of the log of h whose call is one of ops
Positions(h, ops) == {i \in 1..Len(log[h]) : log[h][i].op \in ops}

(***************************************************************************)
(* C1 as stated: a finished handle_text run has delivered exactly one      *)
(* reply, and it is a listing, a confirmation, the unsupported-intent      *)
(* message or the generic error message.                                   *)
(***************************************************************************)
C1_ExactlyOneReply ==
    \A h \in Handlers :
        (Done(h) /\ kind[h] = "text") =>
            /\ Len(Delivered(h)) = 1
            /\ Delivered(h)[1].msg.kind \in OutcomeKinds

\* the replies after the echo, the generic error message apart: nothing, one
\* message that is not a listing line, or listing lines only
OutcomeBody(body) ==
    \/ body = <<>>
    \/ /\ Len(body) = 1
       /\ body[1].msg.kind \in
            {"No events found for today."} \cup ConfirmationKinds \cup {UnsupportedKind}
    \/ \A i \in 1..Len(body) : body[i].msg.kind = " - "

(***************************************************************************)
(* C1 as amended: a finished handle_text run has called reply_text at      *)
(* least twice.  The first call is the echo "Received Text: <text>"; the   *)
(* calls after it are the lines of a listing, or one "No events" /         *)
(* confirmation / unsupported message, or nothing, followed by the generic *)
(* error message exactly when a call of the run raised; the last call is   *)
(* a listing, a confirmation, the unsupported or the generic error message.*)
(***************************************************************************)
C1_EchoThenOutcome ==
    \A h \in Handlers :
        (Done(h) /\ kind[h] = "text") =>
            LET a == Attempts(h)
                n == Len(a)
                failed == \E i \in 1..(Len(log[h]) - 1) : ~log[h][i].ok
                hasError == n >= 2 /\ a[n].msg.kind = ErrorKind
                body == SubSeq(a, 2, IF hasError THEN n - 1 ELSE n)
            IN  /\ n >= 2
                /\ a[1].msg.kind = "Received Text: "
                /\ a[1].msg.text = said[h]
                /\ a[n].msg.kind \in OutcomeKinds
                /\ OutcomeBody(body)
                /\ hasError <=> failed
                /\ (body = <<>>) => hasError

\* a handle_text run that delivered the echo and then a listing of two lines
C1_Witness ==
    \E h \in Handlers :
        /\ Done(h) /\ kind[h] = "text"
        /\ Len(Delivered(h)) = 3
        /\ Delivered(h)[2].msg.kind = " - "
        /\ Delivered(h)[3].msg.kind = " - "

(***************************************************************************)
(* C2: when handle_voice is over, by returning or by raising, neither      *)
(* voice_messages/<sender>.oga nor voice_messages/<sender>.wav exists,     *)
(* whichever call of the run failed.                                       *)
(***************************************************************************)
C2_StagedFilesRemoved ==
    \A h \in Handlers :
        (Done(h) /\ kind[h] = "voice") =>
            /\ files[OgaPath(sender[h])] = NoFile
            /\ files[WavPath(sender[h])] = NoFile

\* a handle_voice run that staged both files, then failed, failed again to send
\* the generic message, and removed both files on its way out
C2_Witness ==
    \E h \in Handlers :
        /\ Done(h) /\ kind[h] = "voice" /\ escaped[h]
        /\ Positions(h, {"remove_oga"}) # {}
        /\ Positions(h, {"remove_wav"}) # {}

\* the adapter calls of the run of h that raised
FailedAdapterCalls(h) == {i \in Positions(h, AdapterOps) : ~log[h][i].ok}

(***************************************************************************)
(* C3 as stated: when classification, authentication or a calendar call    *)
(* failed in a finished run, the generic error message has been delivered, *)
(* it is the last message delivered, and no listing or confirmation was    *)
(* delivered after the failure.                                            *)
(***************************************************************************)
C3_ErrorMessageSent ==
    \A h \in Handlers :
        \A i \in FailedAdapterCalls(h) :
            Done(h) =>
                LET d == Delivered(h)
                IN  /\ d # <<>>
                    /\ d[Len(d)].msg = ErrorMsg
                    /\ \A j \in (i + 1)..Len(log[h]) :
                          IsDelivered(log[h][j]) =>
                            log[h][j].msg.kind \notin ListingKinds \cup ConfirmationKinds

(***************************************************************************)
(* C3 as amended: when classification, authentication or a calendar call   *)
(* fails, the next reply_text call of the run is the generic error         *)
(* message and it is the last reply_text call of the run (so no listing or *)
(* confirmation follows the failure); the message is delivered unless that *)
(* call itself raises.                                                     *)
(***************************************************************************)
C3_ErrorReplyIsNextAndLast ==
    \A h \in Handlers :
        \A i \in FailedAdapterCalls(h) :
            IF i = Len(log[h])
            THEN pc[h] = "except" /\ replies[h] = <<ErrorMsg>>
            ELSE /\ log[h][i + 1].op = "reply"
                 /\ log[h][i + 1].msg = ErrorMsg
                 /\ \A j \in (i + 2)..Len(log[h]) : log[h][j].op # "reply"
                 /\ Done(h)
                 /\ escaped[h] <=> ~log[h][i + 1].ok

\* a finished run whose calendar delete raised and that delivered the generic
\* message as its last reply
C3_Witness ==
    \E h \in Handlers :
        /\ Done(h)
        /\ \E i \in FailedAdapterCalls(h) : log[h][i].op = "delete"
        /\ Delivered(h)[Len(Delivered(h))].msg = ErrorMsg

(***************************************************************************)
(* C4: no exception leaves handle_voice or handle_text.                    *)
(***************************************************************************)
C4_NothingEscapes == \A h \in Handlers : ~escaped[h]

\* the calendar call the claims expect for a trimmed, lowercased response
ExpectedCall(n) ==
    IF n = LIST_EVENTS THEN "list"
    ELSE IF n = CREATE_EVENT THEN "insert"
    ELSE IF n = DELETE_EVENT THEN "delete"
    ELSE "no call"

\* the calendar calls of the run of h
CallsMade(h) == {log[h][i].op : i \in Positions(h, CalendarOps)}

\* the unsupported-intent message is in flight or has been passed to reply_text
UnsupportedReplied(h) ==
    \/ \E i \in 1..Len(replies[h]) : replies[h][i] = UnsupportedMsg
    \/ \E i \in 1..Len(log[h]) : log[h][i].op = "reply" /\ log[h][i].msg = UnsupportedMsg

(***************************************************************************)
(* C5: with n the response trimmed and lowercased, a run never makes a     *)
(* calendar call other than the one of the label n is (none when n is no   *)
(* label); and when the run reaches the routing, it takes the branch of    *)
(* that label and makes its call, or, when n is no label, takes the        *)
(* unsupported branch and replies with the unsupported-intent message.     *)
(***************************************************************************)
C5_RoutedByExactLabel ==
    \A h \in Handlers :
        resp[h] # None =>
            LET n == Lower(Strip(resp[h]))
            IN  /\ CallsMade(h) \subseteq {ExpectedCall(n)}
                /\ branch[h] # "none" =>
                      IF n \in Labels
                      THEN CallsMade(h) = {ExpectedCall(n)} /\ ~UnsupportedReplied(h)
                      ELSE branch[h] = "unsupported" /\ UnsupportedReplied(h)

\* a finished run whose response " List_Events\n" was routed to the list call
C5_Witness ==
    \E h \in Handlers :
        /\ resp[h] = <<" ","L","i","s","t","_","E","v","e","n","t","s","\n">>
        /\ CallsMade(h) = {"list"}
        /\ Done(h)

(***************************************************************************)
(* C6: a run whose intent is unknown performs no calendar adapter step: no *)
(* authentication (token load, refresh, interactive flow, token write,     *)
(* service build), no list/insert/delete; so none of them fails in it.     *)
(***************************************************************************)
C6_UnknownSkipsCalendarAdapter ==
    \A h \in Handlers :
        (resp[h] # None /\ Lower(Strip(resp[h])) \notin Labels) =>
            /\ Positions(h, AuthOps \cup CalendarOps) = {}
            /\ FailedAdapterCalls(h) = {}

(***************************************************************************)
(* C7: a run issues at most one calendar mutation (insert or delete), and  *)
(* none when the intent is list_events or unknown, or when classification  *)
(* failed; error paths included.                                           *)
(***************************************************************************)
C7_AtMostOneMutation ==
    \A h \in Handlers :
        LET m == Positions(h, MutationOps)
            n == Lower(Strip(resp[h]))
        IN  /\ Cardinality(m) <= 1
            /\ (resp[h] = None \/ n \notin {CREATE_EVENT, DELETE_EVENT}) => m = {}

\* a run that inserted an event, then failed to send the confirmation and the
\* generic message: one mutation on an error path
C7_Witness ==
    \E h \in Handlers :
        /\ Done(h) /\ escaped[h]
        /\ Cardinality(Positions(h, {"insert"})) = 1

(***************************************************************************)
(* C8: transcribe_audio never raises: when the decode step or the          *)
(* recognition step fails, the text is one of the two placeholders and the *)
(* next reply of the run is "Transcribed Text: <placeholder>".             *)
(***************************************************************************)
C8_TranscribeNeverRaises ==
    \A h \in Handlers :
        \A i \in Positions(h, {"decode", "recognize"}) :
            ~log[h][i].ok =>
                /\ text[h] \in {CouldNotUnderstand, ApiUnavailable}
                /\ IF i = Len(log[h])
                   THEN pc[h] = "echo" /\ replies[h] = <<TranscribedMsg(text[h])>>
                   ELSE log[h][i + 1].op = "reply"
                        /\ log[h][i + 1].msg = TranscribedMsg(text[h])

(***************************************************************************)
(* C9: every calendar call of a run comes after the run obtained a         *)
(* credential (a valid stored one, a refresh or the interactive flow) and  *)
(* built the service; and when token.json was absent, or held a credential *)
(* neither valid nor refreshable, the interactive flow ran and token.json  *)
(* was written, in that order, before the call.                            *)
(***************************************************************************)
C9_CredentialBeforeCalendarCall ==
    \A h \in Handlers :
        \A i \in Positions(h, CalendarOps) :
            LET c == stored[h].cred
                t == stored[h].at
                Before(op, k) == \E j \in 1..(k - 1) : log[h][j].op = op /\ log[h][j].ok
                usable == c.exists /\ c.token /\ t < c.expiry
                refreshable == c.exists /\ t >= c.expiry /\ c.refresh_token
            IN  /\ stored[h] # NotAuthenticated
                /\ Before("build", i)
                /\ usable \/ Before("refresh", i) \/ Before("flow", i)
                /\ (~usable /\ ~refreshable) =>
                      \E k \in 1..(i - 1) :
                          /\ log[h][k].op = "write_token" /\ log[h][k].ok
                          /\ Before("flow", k)

\* a run that found no token.json and went on to a calendar call
C9_Witness ==
    \E h \in Handlers :
        /\ Positions(h, CalendarOps) # {}
        /\ stored[h] # NotAuthenticated
        /\ ~stored[h].cred.exists

Returned(h, op) == \E i \in 1..Len(log[h]) : log[h][i].op = op /\ log[h][i].ok

\* the runs that wrote token.json
TokenWriters == {h \in Handlers : Returned(h, "write_token")}

\* the credential the run of h goes on with after authenticating
HeldCredential(h) ==
    IF Returned(h, "refresh") \/ Returned(h, "flow")
    THEN [token |-> TRUE, expiry |-> stored[h].at + TokenLife]
    ELSE [token |-> stored[h].cred.token, expiry |-> stored[h].cred.expiry]

(***************************************************************************)
(* C11: with two overlapping runs on one token.json, the file always holds *)
(* one whole credential: the one it started with while no run has written  *)
(* it, else the one the latest writing run obtained; each run refreshes    *)
(* and writes at most once; and a run that built the calendar service goes *)
(* on with a credential that was valid when it authenticated.              *)
(***************************************************************************)
C11_RefreshSerialized ==
    /\ token.exists
    /\ IF TokenWriters = {}
       THEN token = Cred(TRUE, 0, TRUE)
       ELSE \E h \in TokenWriters :
               /\ \A g \in TokenWriters : stored[g].at <= stored[h].at
               /\ token = Cred(TRUE, stored[h].at + TokenLife, TRUE)
    /\ \A h \in Handlers :
        /\ Cardinality(Positions(h, {"refresh", "flow"})) <= 1
        /\ Cardinality(Positions(h, {"write_token"})) <= 1
        /\ \A i \in Positions(h, {"write_token"}) :
              i > 1 /\ log[h][i - 1].op \in {"refresh", "flow"} /\ log[h][i - 1].ok
        /\ Returned(h, "build") =>
              HeldCredential(h).token /\ stored[h].at < HeldCredential(h).expiry

\* both runs are under way, each found the credential expired, and each has
\* refreshed it and written token.json
C11_Witness ==
    /\ \A h \in Handlers :
        /\ pc[h] = "result"
        /\ stored[h].at >= stored[h].cred.expiry
        /\ Returned(h, "refresh")
        /\ Returned(h, "write_token")
    /\ stored[1].at # stored[2].at


(***************************************************************************)
(* C12.  A run classified list_events whose list call returned.            *)
(***************************************************************************)
\* the messages of the reply_text calls of run h, delivered or not, in order
Sends(h) == [i \in 1..Len(Attempts(h)) |-> Attempts(h)[i].msg]

\* the messages run h still has to send from its listing
Pending(h) == IF pc[h] = "result" THEN replies[h] ELSE <<>>

\* one line per event of the answer q, in q's order: "<start> - <summary>"
LinesOf(q) == [i \in 1..Len(q) |-> Msg(" - ", q[i].summary, q[i].start)]

\* what the claim says the run replies for the answer q
ListingOf(q) == IF Len(q) = 0 THEN <<NoEventsMsg>> ELSE LinesOf(q)

IsPrefix(s, t) == Len(s) <= Len(t) /\ SubSeq(t, 1, Len(s)) = s

\* C12 as stated: in a finished run whose list call returned, the replies are
\* exactly "No events found for today." for an empty answer, and exactly one
\* line per returned event, in the order returned, otherwise
C12_ReplyIsListing ==
    \A h \in Handlers :
        (Done(h) /\ Returned(h, "list")) => Sends(h) = ListingOf(listed[h])

\* C12 amended: the echo comes first; after it the messages sent and still to
\* send are the "No events" message alone for an empty answer and the lines of
\* the returned events in their order otherwise (so "No events" is not among
\* them); they are all sent unless a send raises, which ends the listing at
\* that line with the generic message as the only message after it
C12_ListingAfterEcho ==
    \A h \in Handlers :
        Returned(h, "list") =>
            LET all == Sends(h) \o Pending(h)
                want == ListingOf(listed[h])
                body == SubSeq(all, 2, Len(all))
                failed == {i \in 2..Len(Attempts(h)) : ~Attempts(h)[i].ok}
            IN  /\ all[1] \in {ReceivedMsg(text[h]), TranscribedMsg(text[h])}
                /\ Attempts(h)[1].ok
                /\ IF failed = {}
                   THEN /\ IsPrefix(body, want)
                        /\ (pc[h] = "result" \/ Done(h)) => body = want
                   ELSE \E k \in 1..Len(want) :
                          /\ failed \subseteq {k + 1, k + 2}
                          /\ k + 1 \in failed
                          /\ IsPrefix(body, SubSeq(want, 1, k) \o <<ErrorMsg>>)
                          /\ Done(h) => body = SubSeq(want, 1, k) \o <<ErrorMsg>>

\* a finished run that listed two events, every send delivered
C12_Witness ==
    \E h \in Handlers :
        /\ Done(h) /\ Returned(h, "list") /\ Len(listed[h]) = 2
        /\ listed[h][1].summary # listed[h][2].summary
        /\ \A i \in 1..Len(Attempts(h)) : Attempts(h)[i].ok
        /\ Len(Attempts(h)) = 3


(***************************************************************************)
(* C13.  Termination of a run, and what it has sent by then.               *)
(***************************************************************************)
\* handler h is in the middle of a run
Running(h) == pc[h] \notin {"idle", "done"}

\* C13 as stated: a finished run has sent (delivered) at least one reply
C13_NeverSilent ==
    \A h \in Handlers : Done(h) => Len(Delivered(h)) >= 1

\* C13 amended: every run that started ends, and by its end it has called
\* reply_text at least once; it has delivered nothing only if every one of
\* those calls raised, the generic message being the last of them
C13_TerminatesHavingTriedToReply ==
    /\ \A h \in Sequential : Running(h) ~> Done(h)
    /\ [](\A h \in Sequential :
            Done(h) =>
                /\ Len(Attempts(h)) >= 1
                /\ Delivered(h) = <<>> =>
                      Attempts(h)[Len(Attempts(h))] = Reply(ErrorMsg, FALSE))

\* a run that ended in silence: the echo and the generic message both raised
C13_Witness ==
    \E h \in Sequential :
        /\ Done(h) /\ Delivered(h) = <<>> /\ Len(Attempts(h)) = 2
        /\ kind[h] = "text"


(***************************************************************************)
(* C14.  create_event, then list_today_events.                             *)
(***************************************************************************)
\* the events the calendar service holds because a create_event call made them
Created == {e \in calendar : \E i \in 1..Len(FreshIds) : e.id = FreshIds[i]}

\* run h made its successful call op in this step
Now(h, op) == Returned(h, op)' /\ ~Returned(h, op)

\* the line of event e is among the messages run h has sent or still sends
Lists(h, e) ==
    \E i \in 1..Len(Sends(h) \o Pending(h)) :
        (Sends(h) \o Pending(h))[i] = Msg(" - ", e.summary, e.start)

\* C14: a successful create at hour t adds exactly one event, with the summary
\* and the attendee set passed to create and start t+1h; and a list call made
\* while the start of a created event is within the next 24 hours returns that
\* event with that summary and attendee set, and the list_events run lists it
C14_CreateThenList ==
    /\ [][\A h \in Handlers :
            Now(h, "insert") =>
                \E e \in calendar' \ calendar :
                    /\ calendar' = calendar \cup {e}
                    /\ e.summary = "Meeting with Team"
                    /\ e.attendees = {"guest1@example.com", "guest2@example.com"}
                    /\ e.start = now + 1 /\ e.end = now + 2]_vars
    /\ [](\A h \in Handlers :
            Returned(h, "list") =>
                \A e \in Created :
                    (stored[h].at <= e.start /\ e.start < stored[h].at + 24) =>
                        /\ \E i \in 1..Len(listed[h]) :
                              /\ listed[h][i].id = e.id
                              /\ listed[h][i].summary = "Meeting with Team"
                              /\ listed[h][i].attendees =
                                    {"guest1@example.com", "guest2@example.com"}
                        /\ (pc[h] = "result" \/ (Done(h) /\ Delivered(h) = Attempts(h)))
                              => Lists(h, e))

\* a list_events run, an hour after the create, that has delivered the line of
\* the created event
C14_Witness ==
    \E h \in Handlers : \E e \in Created :
        /\ Done(h) /\ Returned(h, "list") /\ Delivered(h) = Attempts(h)
        /\ stored[h].at = 1 /\ e.start = 1
        /\ \E i \in 1..Len(Delivered(h)) :
              Delivered(h)[i].msg = Msg(" - ", "Meeting with Team", 1)


(***************************************************************************)
(* C15.  The answer of list_today_events.                                  *)
(***************************************************************************)
\* C15: every event a list call at hour t returned starts in [t, t+24), and
\* the events are returned in non-decreasing order of start
C15_StartInWindowAndOrdered ==
    \A h \in Handlers :
        Returned(h, "list") =>
            /\ \A i \in 1..Len(listed[h]) :
                  stored[h].at <= listed[h][i].start
                  /\ listed[h][i].start < stored[h].at + 24
            /\ \A i, j \in 1..Len(listed[h]) :
                  i < j => listed[h][i].start <= listed[h][j].start


(***************************************************************************)
(* C16.  Confirmations.                                                    *)
(***************************************************************************)
\* the messages run h has passed to reply_text or is about to
Said(h) == {Sends(h)[i] : i \in 1..Len(Sends(h))} \cup
           {replies[h][i] : i \in 1..Len(replies[h])}

\* run h made the call op and it raised
Raised(h, op) == \E i \in 1..Len(log[h]) : log[h][i].op = op /\ ~log[h][i].ok

\* C16: a run says "Event created successfully." only after its insert call
\* returned, and "Event deleted successfully." only after its delete call
\* returned; a run whose insert or delete raised says neither
C16_ConfirmationOnlyAfterSuccess ==
    \A h \in Handlers :
        /\ \A i \in 1..Len(log[h]) :
              /\ (IsReply(log[h][i]) /\ log[h][i].msg = CreatedMsg) =>
                    \E j \in 1..(i - 1) : log[h][j] = Call("insert", TRUE)
              /\ (IsReply(log[h][i]) /\ log[h][i].msg = DeletedMsg) =>
                    \E j \in 1..(i - 1) : log[h][j] = Call("delete", TRUE)
        /\ CreatedMsg \in Said(h) => Returned(h, "insert")
        /\ DeletedMsg \in Said(h) => Returned(h, "delete")
        /\ (Raised(h, "insert") \/ Raised(h, "delete")) =>
              Said(h) \cap {CreatedMsg, DeletedMsg} = {}

\* a finished run whose delete found no event of the placeholder id: it said
\* the generic message and no confirmation
C16_Witness ==
    \E h \in Handlers :
        /\ Done(h) /\ Raised(h, "delete") /\ calendar = {}
        /\ ErrorMsg \in Said(h)
        /\ DeletedMsg \notin Said(h)


(***************************************************************************)
(* C17.  What the text of a message can change.                            *)
(***************************************************************************)
\* the log index of the last reply_text call of run h
LastSend(h) == CHOOSE i \in Positions(h, {"reply"}) :
                  \A j \in Positions(h, {"reply"}) : j <= i

\* the kinds of final reply of a run of the given intent in which no call raised
FinalKinds(i) ==
    IF i = LIST_EVENTS THEN {" - ", "No events found for today."}
    ELSE IF i = CREATE_EVENT THEN {"Event created successfully."}
    ELSE IF i = DELETE_EVENT THEN {"Event deleted successfully."}
    ELSE {"Unknown intent or action not supported."}

\* C17: whatever the text, a run changes the calendar only by the call of its
\* intent, with the fixed parameters: create_event inserts "Meeting with Team"
\* with the two guests from now+1h to now+2h, delete_event deletes the id
\* "your_event_id", no other step changes the calendar; and the kind of the
\* final reply is the one of the intent, or the generic message when a call
\* of the run raised (the recognizer's errors, which transcribe_audio turns
\* into a text, apart)
C17_TextOnlyThroughIntent ==
    /\ [][/\ \A h \in Handlers :
               /\ Now(h, "insert") =>
                     /\ intent'[h] = CREATE_EVENT
                     /\ calendar' = calendar \cup
                           {[id |-> FreshIds[nid + 1], summary |-> "Meeting with Team",
                             start |-> now + 1, end |-> now + 2,
                             attendees |-> {"guest1@example.com",
                                            "guest2@example.com"}]}
               /\ Now(h, "delete") =>
                     /\ intent'[h] = DELETE_EVENT
                     /\ calendar' = {e \in calendar : e.id # "your_event_id"}
          /\ (\A h \in Handlers : ~Now(h, "insert") /\ ~Now(h, "delete")) =>
                calendar' = calendar]_vars
    /\ [](\A h \in Handlers :
            Done(h) =>
                LET last == log[h][LastSend(h)]
                IN  IF \E i \in 1..(LastSend(h) - 1) :
                          ~log[h][i].ok /\ log[h][i].op # "recognize"
                    THEN last.msg = ErrorMsg
                    ELSE last.msg.kind \in FinalKinds(intent[h]))

\* two create_event runs have succeeded, the second for the text "hi"
C17_Witness ==
    \E h \in Handlers :
        /\ Done(h) /\ text[h] = "hi" /\ intent[h] = CREATE_EVENT
        /\ Returned(h, "insert") /\ nid = 2
        /\ log[h][LastSend(h)] = Reply(CreatedMsg, TRUE)
        /\ \A e \in Created : e.summary = "Meeting with Team"


(***************************************************************************)
(* C18.  A run that fails after its calendar mutation.                     *)
(***************************************************************************)
\* run h made a successful insert or delete and a later call of it raised
FailedAfterMutation(h) ==
    \E i, j \in 1..Len(log[h]) :
        i < j /\ log[h][i].op \in MutationOps /\ log[h][i].ok /\ ~log[h][j].ok

\* the calendar still shows the mutation run h made
MutationStays(h) ==
    /\ Returned(h, "insert") =>
          \E e \in calendar : e.id = FreshIds[nid] /\ e.summary = "Meeting with Team"
    /\ Returned(h, "delete") => \A e \in calendar : e.id # "your_event_id"

\* C18 as stated: a run that failed after its mutation has made no other
\* calendar call, the mutation is in the calendar, and the user has received
\* the generic message
C18_NoRollbackUserInformed ==
    \A h \in Handlers :
        (Done(h) /\ FailedAfterMutation(h)) =>
            /\ Cardinality(Positions(h, CalendarOps)) = 1
            /\ MutationStays(h)
            /\ \E i \in 1..Len(log[h]) : log[h][i] = Reply(ErrorMsg, TRUE)

\* C18 amended: a run that fails after its mutation makes no other calendar
\* call, the mutation stays in the calendar, and the generic message is the
\* next and last message the run sends; the user receives it unless that send
\* raises too
C18_NoRollbackErrorAttempted ==
    \A h \in Handlers :
        FailedAfterMutation(h) =>
            /\ Cardinality(Positions(h, CalendarOps)) = 1
            /\ MutationStays(h)
            /\ pc[h] \in {"except", "done"}
            /\ pc[h] = "except" => replies[h] = <<ErrorMsg>>
            /\ Done(h) =>
                  /\ log[h][LastSend(h)].msg = ErrorMsg
                  /\ log[h][LastSend(h) - 1].op = "reply"
                  /\ log[h][LastSend(h) - 1].msg \in {CreatedMsg, DeletedMsg}
                  /\ ~log[h][LastSend(h) - 1].ok

\* the insert succeeded, the confirmation could not be sent, the generic
\* message was delivered, and the created event is in the calendar
C18_Witness ==
    \E h \in Handlers :
        /\ Done(h) /\ Returned(h, "insert") /\ FailedAfterMutation(h)
        /\ log[h][LastSend(h)] = Reply(ErrorMsg, TRUE)
        /\ \E e \in Created : e.id = FreshIds[nid]


(***************************************************************************)
(* C19.  The path authenticate_google_calendar takes.                      *)
(***************************************************************************)
\* run h has called authenticate_google_calendar
Authenticated(h) == stored[h].at >= 0

\* C19: for the credential c a run found in token.json at hour t: if c is
\* present and valid, the run calls neither refresh nor the flow nor writes
\* token.json; if c is present, expired and has a refresh token, it calls
\* refresh once and not the flow; otherwise it calls the flow once and not
\* refresh; it writes token.json exactly when the refresh or the flow has
\* returned, as the next call; and token.json changes in no other step
C19_OnePathFromStoredCredential ==
    /\ [](\A h \in Handlers :
            Authenticated(h) =>
                LET c == stored[h].cred
                    t == stored[h].at
                    valid == c.exists /\ c.token /\ t < c.expiry
                    refreshable == c.exists /\ t >= c.expiry /\ c.refresh_token
                    R == Positions(h, {"refresh"})
                    F == Positions(h, {"flow"})
                    W == Positions(h, {"write_token"})
                IN  /\ valid => R = {} /\ F = {} /\ W = {}
                    /\ (~valid /\ refreshable) => Cardinality(R) = 1 /\ F = {}
                    /\ (~valid /\ ~refreshable) => Cardinality(F) = 1 /\ R = {}
                    /\ Cardinality(W) <= 1
                    /\ W # {} <=> \E i \in R \cup F : log[h][i].ok
                    /\ \A w \in W : (w - 1) \in R \cup F)
    /\ [][token' # token => \E h \in Handlers : Now(h, "write_token")]_vars

\* a run that found a credential without access token, not expired and with a
\* refresh token: it ran the flow and wrote token.json
C19_Witness ==
    \E h \in Handlers :
        /\ Done(h) /\ stored[h] = [cred |-> Cred(FALSE, 1, TRUE), at |-> 0]
        /\ Returned(h, "flow") /\ Returned(h, "write_token")
        /\ Positions(h, {"refresh"}) = {}
        /\ token # stored[h].cred

====
